---- MODULE Spec2Model ----
(***************************************************************************)
(* A model of the global_counter crate: the thread-local/atomic counters   *)
(* of src/primitive/fast.rs (the FlushingCounter and ApproxCounter types), *)
(* the atomic counters of src/primitive/exact.rs and the mutex-protected   *)
(* generic counter of src/generic.rs.                                      *)
(*                                                                         *)
(* Integers are modelled at a small width: a value is the bit pattern of   *)
(* a Bits-wide integer, 0..2^Bits-1.  Atomic fetch_add wraps; the          *)
(* `as $primitive` cast between the unsigned local count and a signed      *)
(* counter of the same width keeps the bit pattern.                        *)
(*                                                                         *)
(* An atomic cell is modelled as one linearizable location: every load     *)
(* returns the newest value of its modification order.  A thread-local     *)
(* cell is reachable from its own thread only, and inc and flush make at   *)
(* most one access to shared memory (the fetch_add), so each call is one   *)
(* action: its place among the other threads' actions is the place of its  *)
(* fetch_add.                                                              *)
(***************************************************************************)
EXTENDS Integers, FiniteSets, Sequences, TLC

\* ------------------------------------------------------------- bounds ----
Bits == 2
NumThreads == 2
MaxIncs == 3

Modulus == 2^Bits
MaxVal == Modulus - 1
Values == 0..MaxVal
Threads == 1..NumThreads

NoCell == 0 - 1
NoRet == 0 - 1

\* Two counters of the same counter type (say two FlushingCounterU8 statics).
Insts == {"A", "B"}

VARIABLES
    \* ---- src/primitive/fast.rs ----
    kind,             \* "flushing" | "approx": which macro generated the type
                      \* (in SpecAll also "exact" | "generic": the counter the
                      \* program uses)
    overflow_checks,  \* build profile: `+=` panics on overflow (debug) or wraps
    start,            \* [Insts -> Values]: the start argument of new
    threshold,        \* [Insts -> Values]: ApproxCounter.threshold
    global_counter,   \* [Insts -> Values]: the atomic global_counter field
    TL_COUNTER,       \* [Keys -> [Threads -> Values \cup {NoCell}]]: thread_local!
    status,           \* [Threads -> "running" | "exited" | "panicked"]
    \* history of the calls made (not program state)
    inc_calls,        \* [Insts -> Nat]: inc calls made on the instance
    inc_done,         \* [Insts -> Nat]: inc calls that have returned
    contributors,     \* [Insts -> SUBSET Threads]: threads that called inc on it
    unflushed,        \* [Insts -> SUBSET Threads]: live threads that called
                      \* inc on it and have not completed a flush on it since
    lost,             \* [Insts -> Values]: the sum (wrapping) of what the local
                      \* cells for it held when their threads ended
    flushed,          \* [Insts -> SUBSET Threads]: live threads that have
                      \* completed a flush on it
    settled           \* [Insts -> SUBSET Threads]: those of them that have
                      \* called no inc since their last flush on it

VARIABLES
    \* ---- src/primitive/exact.rs ----
    atomic,           \* Values: field .0, the atomic cell
    ordering,         \* field .1, the Ordering given at construction
    exact_ret,        \* [Threads -> Values \cup {NoRet}]: what the thread's last
                      \* inc or get returned
    \* history of the calls made (not program state)
    exact_start,      \* Values: the val argument of new / with_ordering
    exact_incs,       \* Nat: inc calls completed
    exact_stored,     \* BOOLEAN: set or reset has been called
    exact_last,       \* <<op, v>>: the last operation that took effect on the
                      \* cell: <<"new", start>>, <<"set", val>>, <<"reset", 0>>
                      \* or <<"inc", value returned>>
    exact_returned,   \* SUBSET Values: the values inc calls have returned
    exact_ctor,       \* "new" | "with_ordering": how the counter was made
    exact_used,       \* <<op, o>>: the last operation on the cell and the
                      \* ordering it passed to the atomic ("none" before any)
    exact_panicked,   \* SUBSET Threads: threads that panicked in a call
    exact_base,       \* Values: what the last of new, set and reset stored
    exact_since       \* Nat: inc calls completed since then

VARIABLES
    \* ---- src/generic.rs ----
    parking_lot,      \* BOOLEAN: cfg(parking_lot), else std::sync::Mutex
    mutex_value,      \* Values: the T inside Counter(Mutex<T>), an integer type
    mutex_owner,      \* 0 (unlocked) or the thread that holds the mutex
    poisoned,         \* BOOLEAN: the std mutex's poison flag
    gpc,              \* [Threads -> position inside the call in progress]
    gop,              \* [Threads -> the method called last]
    gprev,            \* [Threads -> Values]: `prev` of inc_cloning
    gtmp,             \* [Threads -> Values]: the value `+= 1` has read
    guard,            \* [Threads -> "none" | "ref" | "mut"]: the borrow the
                      \* caller keeps from get_borrowed / get_mut_borrowed
    \* history of the calls made (not program state)
    generic_start,    \* Values: the val argument of new
    generic_calls,    \* Nat: inc and inc_cloning calls made
    generic_incs,     \* Nat: inc and inc_cloning calls that have returned
    generic_stored,   \* BOOLEAN: set, reset or a write through a mutable
                      \* borrow has taken effect
    overlap,          \* [Threads -> SUBSET Values]: during the thread's
                      \* inc_cloning call in progress, the values other
                      \* threads' inc_cloning calls have returned
    inc_returned,     \* SUBSET Threads: threads one of whose inc or
                      \* inc_cloning calls has returned
    generic_base,     \* Values: what the last of new, set, reset and a write
                      \* through a mutable borrow stored
    generic_since,    \* Nat: inc and inc_cloning calls that have returned
                      \* since then
    generic_last      \* <<op, v>>: the last operation that took effect on the
                      \* value: <<"new", start>>, <<"set", val>>, <<"reset", 0>>,
                      \* <<"inc", 0>>, <<"inc_cloning", value returned>> or
                      \* <<"write", 0>> (through a mutable borrow)

VARIABLES
    \* ---- global_counter! / global_default_counter! (generic.rs, lib.rs) ----
    lazy_state,       \* "uninit" | "running" | "init": the cell of the Lazy
                      \* the static holds ("init" also for a counter that
                      \* is made with Counter::new directly)
    lpc,              \* [Threads -> "none" | "cas" | "init" | "wait"]: where
                      \* the thread is in its access to the static
    \* history of the calls made (not program state)
    lazy_inits        \* Nat: runs of the closure `|| Counter::new($value)`

fastVars == <<kind, overflow_checks, start, threshold, global_counter, TL_COUNTER,
              status, inc_calls, inc_done, contributors, unflushed, lost,
              flushed, settled>>

exactVars == <<atomic, ordering, exact_ret, exact_start, exact_incs, exact_stored,
               exact_last, exact_returned,
               exact_ctor, exact_used, exact_panicked, exact_base,
               exact_since>>

genericVars == <<parking_lot, mutex_value, mutex_owner, poisoned, gpc, gop,
                 gprev, gtmp, guard, generic_start, generic_calls,
                 generic_incs, generic_stored, overlap, generic_last,
                 inc_returned, generic_base, generic_since>>

lazyVars == <<lazy_state, lpc, lazy_inits>>

vars == <<fastVars, exactVars, genericVars, lazyVars>>

\* What an operation on one kind of counter leaves alone: the other counters.
notFast == <<exactVars, genericVars, lazyVars>>
notExact == <<fastVars, genericVars, lazyVars>>
notGeneric == <<kind, start, threshold, global_counter, TL_COUNTER, status,
                inc_calls, inc_done, contributors, unflushed, lost,
                flushed, settled, exactVars, lazyVars>>

\* ------------------------------------------------------ fast.rs: helpers --

\* AtomicX::fetch_add wraps around on overflow.
WrapAdd(a, b) == (a + b) % Modulus

\* `thread_local!(pub static TL_COUNTER ...)` is an item of the body of `new`:
\* one static per counter type, whichever instance `new` returns.  Every
\* instance's thread_local_counter field refers to that one key.
thread_local_counter(i) == "TL_COUNTER"

Keys == {thread_local_counter(i) : i \in Insts}

\* LocalKey::with: the cell is created, holding 0, on the thread's first access.
With(t, i) ==
    LET c == TL_COUNTER[thread_local_counter(i)][t]
    IN  IF c = NoCell THEN 0 ELSE c

\* A faulty cell: a plain static, one cell for all threads.
SetLocalAll(t, i, v) ==
    TL_COUNTER' = [TL_COUNTER EXCEPT
                       ![thread_local_counter(i)] = [u \in Threads |-> v]]

\* `*tlc = v` through the key of instance i, on thread t.
SetLocal(t, i, v) ==
    TL_COUNTER' = [TL_COUNTER EXCEPT ![thread_local_counter(i)][t] = v]

\* A thread that ends (returns or unwinds) destroys its thread-local cells.
DropLocals(t) ==
    TL_COUNTER' = [k \in Keys |-> [TL_COUNTER[k] EXCEPT ![t] = NoCell]]

\* A fetch_sub in the place of the fetch_add, for comparison.
FetchSub(i, v) ==
    global_counter' = [global_counter EXCEPT ![i] = (@ + Modulus - v) % Modulus]

\* self.global_counter.fetch_add(v, Ordering::Relaxed)
FetchAdd(i, v) ==
    global_counter' = [global_counter EXCEPT ![i] = WrapAdd(@, v)]

\* A faulty comparison: the fold waits until the threshold is exceeded.
ReachedAbove(local, i) == local > threshold[i]

\* A faulty comparison: the threshold counts as reached one inc early.
ReachedEarly(local, i) == local + 1 >= threshold[i]

\* A faulty comparison: the threshold counts as reached by every inc.
ReachedAlways(local, i) == TRUE

\* `*tlc >= self.threshold` in ApproxCounter::inc.
ReachedThreshold(local, i) == local >= threshold[i]

\* get: self.global_counter.load(Ordering::Relaxed)
Get(i) == global_counter[i]

Running(t) == status[t] = "running"

\* inc calls made so far, on all instances (the model stops at MaxIncs).
CallsMade == inc_calls["A"] + inc_calls["B"]

\* --------------------------------------------------- fast.rs: operations --

\* new(start) / new(start, resolution) for both instances; no thread has
\* touched its cell yet.
FastInit ==
    /\ kind \in {"flushing", "approx"}
    /\ overflow_checks \in BOOLEAN
    /\ start \in {[i \in Insts |-> IF i = "A" THEN v ELSE 0] : v \in {0, MaxVal}}
    /\ threshold \in [Insts -> Values]
    /\ kind = "flushing" => threshold = [i \in Insts |-> 0]
    /\ kind = "approx" => overflow_checks = FALSE
    /\ global_counter = start
    /\ TL_COUNTER = [k \in Keys |-> [t \in Threads |-> NoCell]]
    /\ status = [t \in Threads |-> "running"]
    /\ inc_calls = [i \in Insts |-> 0]
    /\ inc_done = [i \in Insts |-> 0]
    /\ contributors = [i \in Insts |-> {}]
    /\ unflushed = [i \in Insts |-> {}]
    /\ lost = [i \in Insts |-> 0]
    /\ flushed = [i \in Insts |-> {}]
    /\ settled = [i \in Insts |-> {}]

\* The history kept when thread t calls inc on instance i.
NoteIncCall(t, i) ==
    /\ inc_calls' = [inc_calls EXCEPT ![i] = @ + 1]
    /\ contributors' = [contributors EXCEPT ![i] = @ \cup {t}]
    /\ unflushed' = [unflushed EXCEPT ![i] = @ \cup {t}]
    /\ settled' = [j \in Insts |-> settled[j] \ {t}]

\* A faulty inc: it adds one to the shared global counter as well.
FlushingIncGlobal(t, i) ==
    /\ kind = "flushing"
    /\ Running(t)
    /\ CallsMade < MaxIncs
    /\ With(t, i) < MaxVal \/ ~overflow_checks
    /\ SetLocal(t, i, WrapAdd(With(t, i), 1))
    /\ FetchAdd(i, 1)
    /\ NoteIncCall(t, i)
    /\ inc_done' = [inc_done EXCEPT ![i] = @ + 1]
    /\ UNCHANGED <<kind, overflow_checks, start, threshold, status, lost, flushed>>
    /\ UNCHANGED notFast

\* FlushingCounter::inc where `*tlc += 1` does not overflow, or wraps.
FlushingInc(t, i) ==
    /\ kind = "flushing"
    /\ Running(t)
    /\ CallsMade < MaxIncs
    /\ With(t, i) < MaxVal \/ ~overflow_checks
    /\ SetLocal(t, i, WrapAdd(With(t, i), 1))
    /\ NoteIncCall(t, i)
    /\ inc_done' = [inc_done EXCEPT ![i] = @ + 1]
    /\ UNCHANGED <<kind, overflow_checks, start, threshold, global_counter, status,
                   lost, flushed>>
    /\ UNCHANGED notFast

\* Thread t ends with its cells not flushed: what they hold is abandoned.
Abandon(t) ==
    /\ lost' = [i \in Insts |-> WrapAdd(lost[i], With(t, i))]
    /\ flushed' = [i \in Insts |-> flushed[i] \ {t}]
    /\ settled' = [i \in Insts |-> settled[i] \ {t}]
    /\ unflushed' = [i \in Insts |-> unflushed[i] \ {t}]
    /\ DropLocals(t)

\* inc of either counter type where `*tlc += 1` overflows in a build with
\* overflow checks: the thread panics and unwinds, the cell is left as it was
\* and is destroyed with the thread.
IncPanic(t, i) ==
    /\ Running(t)
    /\ With(t, i) = MaxVal /\ overflow_checks
    /\ Abandon(t)
    /\ status' = [status EXCEPT ![t] = "panicked"]
    /\ inc_calls' = [inc_calls EXCEPT ![i] = @ + 1]
    /\ contributors' = [contributors EXCEPT ![i] = @ \cup {t}]
    /\ UNCHANGED <<kind, overflow_checks, start, threshold, global_counter,
                   inc_done>>
    /\ UNCHANGED notFast

\* ApproxCounter::inc: `*tlc += 1`, and at the threshold the fetch_add of the
\* local count into the global one and `*tlc = 0`.
ApproxInc(t, i) ==
    /\ kind = "approx"
    /\ Running(t)
    /\ CallsMade < MaxIncs
    /\ With(t, i) < MaxVal \/ ~overflow_checks
    /\ LET local == WrapAdd(With(t, i), 1)
       IN  IF ReachedThreshold(local, i)
           THEN /\ FetchAdd(i, local)
                /\ SetLocal(t, i, 0)
           ELSE /\ SetLocal(t, i, local)
                /\ UNCHANGED global_counter
    /\ NoteIncCall(t, i)
    /\ inc_done' = [inc_done EXCEPT ![i] = @ + 1]
    /\ UNCHANGED <<kind, overflow_checks, start, threshold, status, lost,
                   flushed>>
    /\ UNCHANGED notFast

\* A faulty flush: the local count is added but the cell is not reset.
FlushKeepsLocal(t, i) ==
    /\ Running(t)
    /\ FetchAdd(i, With(t, i))
    /\ SetLocal(t, i, With(t, i))
    /\ unflushed' = [unflushed EXCEPT ![i] = @ \ {t}]
    /\ UNCHANGED <<kind, overflow_checks, start, threshold, status, inc_calls,
                   inc_done, contributors, lost>>
    /\ flushed' = [flushed EXCEPT ![i] = @ \cup {t}]
    /\ settled' = [settled EXCEPT ![i] = @ \cup {t}]
    /\ UNCHANGED notFast

\* flush of either counter type: the fetch_add of the local count, `*tlc = 0`.
Flush(t, i) ==
    /\ Running(t)
    /\ FetchAdd(i, With(t, i))
    /\ SetLocal(t, i, 0)
    /\ unflushed' = [unflushed EXCEPT ![i] = @ \ {t}]
    /\ UNCHANGED <<kind, overflow_checks, start, threshold, status, inc_calls,
                   inc_done, contributors, lost>>
    /\ flushed' = [flushed EXCEPT ![i] = @ \cup {t}]
    /\ settled' = [settled EXCEPT ![i] = @ \cup {t}]
    /\ UNCHANGED notFast

\* The thread's closure returns: the thread ends and its cells are destroyed.
ThreadExit(t) ==
    /\ Running(t)
    /\ Abandon(t)
    /\ status' = [status EXCEPT ![t] = "exited"]
    /\ UNCHANGED <<kind, overflow_checks, start, threshold, global_counter,
                   inc_calls, inc_done, contributors>>
    /\ UNCHANGED notFast

\* std::thread::spawn: a new thread runs in the place of one that has ended;
\* it has touched no cell yet.
ThreadSpawn(t) ==
    /\ ~Running(t)
    /\ status' = [status EXCEPT ![t] = "running"]
    /\ UNCHANGED <<kind, overflow_checks, start, threshold, global_counter,
                   TL_COUNTER, inc_calls, inc_done, contributors, unflushed, lost,
                   flushed, settled>>
    /\ UNCHANGED notFast

\* Threads that live as long as the counters: calls of inc and flush only.
FastNext ==
    \/ \E t \in Threads, i \in Insts : FlushingInc(t, i)
    \/ \E t \in Threads, i \in Insts : ApproxInc(t, i)
    \/ \E t \in Threads, i \in Insts : Flush(t, i)

\* The same, with threads that end: by returning, or by the overflow panic.
LifeNext ==
    \/ \E t \in Threads, i \in Insts : FlushingInc(t, i)
    \/ \E t \in Threads, i \in Insts : ApproxInc(t, i)
    \/ \E t \in Threads, i \in Insts : Flush(t, i)
    \/ \E t \in Threads, i \in Insts : IncPanic(t, i)
    \/ \E t \in Threads : ThreadExit(t)
    \/ \E t \in Threads : ThreadSpawn(t)

\* ----------------------------------------------------- exact.rs: model ----

\* The orderings with_ordering documents as possible.
Orderings == {"Relaxed", "AcqRel", "SeqCst"}

\* A faulty get: load is always given SeqCst.
LoadOrderingSeqCst(o) == "SeqCst"

\* `match self.1 { Ordering::AcqRel => Ordering::Acquire, other => other }`
LoadOrdering(o) == IF o = "AcqRel" THEN "Acquire" ELSE o

\* A faulty set: every mode is replaced by Release.
StoreOrderingRelease(o) == "Release"

\* `match self.1 { Ordering::AcqRel => Ordering::Release, other => other }`
StoreOrdering(o) == IF o = "AcqRel" THEN "Release" ELSE o

\* Every value of core::sync::atomic::Ordering.
AnyOrderings == {"Relaxed", "Release", "Acquire", "AcqRel", "SeqCst"}

\* AtomicX::load panics when it is given Release or AcqRel, AtomicX::store
\* when it is given Acquire or AcqRel; fetch_add takes every ordering.
LoadAccepts(o) == o \notin {"Release", "AcqRel"}
StoreAccepts(o) == o \notin {"Acquire", "AcqRel"}

\* A thread that has panicked makes no more calls.
ExactRunning(t) == t \notin exact_panicked

\* new(val) (SeqCst) or with_ordering(val, ordering), the ordering being one
\* of os.
ExactConstructed(os) ==
    /\ exact_start \in {0, MaxVal}
    /\ atomic = exact_start
    /\ \/ exact_ctor = "new" /\ ordering = "SeqCst"
       \/ exact_ctor = "with_ordering" /\ ordering \in os
    /\ exact_used = <<"none", "none">>
    /\ exact_panicked = {}
    /\ exact_ret = [t \in Threads |-> NoRet]
    /\ exact_incs = 0
    /\ exact_stored = FALSE
    /\ exact_last = <<"new", exact_start>>
    /\ exact_base = exact_start
    /\ exact_since = 0
    /\ exact_returned = {}

\* The counter made with one of the orderings with_ordering documents.
ExactInit == ExactConstructed(Orderings)

\* The counter made with any ordering.
ExactInitAny == ExactConstructed(AnyOrderings)

\* A faulty inc: a load and a later store instead of one fetch_add; the store
\* adds 1 to the value the thread read last, not to the current one.
ExactIncLoadStore(t) ==
    /\ ExactRunning(t)
    /\ exact_incs < MaxIncs
    /\ atomic' = WrapAdd(IF exact_ret[t] = NoRet THEN atomic ELSE exact_ret[t], 1)
    /\ exact_ret' = [exact_ret EXCEPT ![t] = atomic]
    /\ exact_incs' = exact_incs + 1
    /\ exact_last' = <<"inc", exact_ret'[t]>>
    /\ exact_returned' = exact_returned \cup {exact_ret'[t]}
    /\ exact_used' = <<"inc", ordering>>
    /\ UNCHANGED <<ordering, exact_start, exact_stored, exact_ctor,
                   exact_panicked>>
    /\ exact_since' = exact_since + 1
    /\ UNCHANGED exact_base
    /\ UNCHANGED notExact

\* A faulty inc: it returns the value after the addition.
ExactIncReturnsNew(t) ==
    /\ ExactRunning(t)
    /\ exact_incs < MaxIncs
    /\ atomic' = WrapAdd(atomic, 1)
    /\ exact_ret' = [exact_ret EXCEPT ![t] = atomic']
    /\ exact_incs' = exact_incs + 1
    /\ exact_last' = <<"inc", exact_ret'[t]>>
    /\ exact_returned' = exact_returned \cup {exact_ret'[t]}
    /\ exact_used' = <<"inc", ordering>>
    /\ UNCHANGED <<ordering, exact_start, exact_stored, exact_ctor,
                   exact_panicked>>
    /\ exact_since' = exact_since + 1
    /\ UNCHANGED exact_base
    /\ UNCHANGED notExact

\* inc: self.0.fetch_add(1, self.1), returning the previous value
ExactInc(t) ==
    /\ ExactRunning(t)
    /\ exact_incs < MaxIncs
    /\ atomic' = WrapAdd(atomic, 1)
    /\ exact_ret' = [exact_ret EXCEPT ![t] = atomic]
    /\ exact_incs' = exact_incs + 1
    /\ exact_last' = <<"inc", exact_ret'[t]>>
    /\ exact_returned' = exact_returned \cup {exact_ret'[t]}
    /\ exact_used' = <<"inc", ordering>>
    /\ UNCHANGED <<ordering, exact_start, exact_stored, exact_ctor,
                   exact_panicked>>
    /\ exact_since' = exact_since + 1
    /\ UNCHANGED exact_base
    /\ UNCHANGED notExact

\* get: self.0.load(...)
ExactGet(t) ==
    /\ ExactRunning(t)
    /\ LoadAccepts(LoadOrdering(ordering))
    /\ exact_ret' = [exact_ret EXCEPT ![t] = atomic]
    /\ exact_used' = <<"get", LoadOrdering(ordering)>>
    /\ UNCHANGED <<atomic, ordering, exact_start, exact_incs, exact_stored,
                   exact_last, exact_returned, exact_ctor,
                   exact_panicked>>
    /\ UNCHANGED <<exact_base, exact_since>>
    /\ UNCHANGED notExact

\* set: self.0.store(val, ...)
ExactSet(t, val) ==
    /\ ExactRunning(t)
    /\ StoreAccepts(StoreOrdering(ordering))
    /\ atomic' = val
    /\ exact_stored' = TRUE
    /\ exact_last' = <<"set", val>>
    /\ exact_used' = <<"set", StoreOrdering(ordering)>>
    /\ UNCHANGED <<ordering, exact_ret, exact_start, exact_incs, exact_returned,
                   exact_ctor,
                   exact_panicked>>
    /\ exact_base' = val
    /\ exact_since' = 0
    /\ UNCHANGED notExact

\* A faulty reset: back to the value the counter was constructed with.
ExactResetToStart(t) ==
    /\ ExactRunning(t)
    /\ StoreAccepts(StoreOrdering(ordering))
    /\ atomic' = exact_start
    /\ exact_stored' = TRUE
    /\ exact_last' = <<"reset", 0>>
    /\ exact_used' = <<"reset", StoreOrdering(ordering)>>
    /\ UNCHANGED <<ordering, exact_ret, exact_start, exact_incs, exact_returned,
                   exact_ctor,
                   exact_panicked>>
    /\ exact_base' = 0
    /\ exact_since' = 0
    /\ UNCHANGED notExact

\* reset: self.0.store(0, ...)
ExactReset(t) ==
    /\ ExactRunning(t)
    /\ StoreAccepts(StoreOrdering(ordering))
    /\ atomic' = 0
    /\ exact_stored' = TRUE
    /\ exact_last' = <<"reset", 0>>
    /\ exact_used' = <<"reset", StoreOrdering(ordering)>>
    /\ UNCHANGED <<ordering, exact_ret, exact_start, exact_incs, exact_returned,
                   exact_ctor,
                   exact_panicked>>
    /\ exact_base' = 0
    /\ exact_since' = 0
    /\ UNCHANGED notExact

\* get with an ordering load does not take: the load panics.
ExactLoadPanic(t) ==
    /\ ExactRunning(t)
    /\ ~LoadAccepts(LoadOrdering(ordering))
    /\ exact_used' = <<"get", LoadOrdering(ordering)>>
    /\ exact_panicked' = exact_panicked \cup {t}
    /\ UNCHANGED <<atomic, ordering, exact_ret, exact_start, exact_incs,
                   exact_stored, exact_last, exact_returned, exact_ctor>>
    /\ UNCHANGED <<exact_base, exact_since>>
    /\ UNCHANGED notExact

\* set or reset with an ordering store does not take: the store panics.
ExactStorePanic(t, op) ==
    /\ ExactRunning(t)
    /\ ~StoreAccepts(StoreOrdering(ordering))
    /\ exact_used' = <<op, StoreOrdering(ordering)>>
    /\ exact_panicked' = exact_panicked \cup {t}
    /\ UNCHANGED <<atomic, ordering, exact_ret, exact_start, exact_incs,
                   exact_stored, exact_last, exact_returned, exact_ctor>>
    /\ UNCHANGED <<exact_base, exact_since>>
    /\ UNCHANGED notExact

ExactNext ==
    \/ \E t \in Threads : ExactInc(t)
    \/ \E t \in Threads : ExactGet(t)
    \/ \E t \in Threads, val \in Values : ExactSet(t, val)
    \/ \E t \in Threads : ExactReset(t)

\* The same, with the calls that panic in the atomic.
ExactAnyNext ==
    \/ \E t \in Threads : ExactInc(t)
    \/ \E t \in Threads : ExactGet(t)
    \/ \E t \in Threads, val \in Values : ExactSet(t, val)
    \/ \E t \in Threads : ExactReset(t)
    \/ \E t \in Threads : ExactLoadPanic(t)
    \/ \E t \in Threads, op \in {"set", "reset"} : ExactStorePanic(t, op)

\* --------------------------------------------------- generic.rs: model ---
\* The counted type T is a built-in integer type.  A call is followed step by
\* step: the wait for the mutex, then each access to the value under it.

Methods == {"inc", "set", "get_cloned", "inc_cloning", "reset", "get_borrowed",
            "get_mut_borrowed"}

\* Inc for the integer types: `*self += 1`, on a value without overflow.
IntInc(v) == v + 1

\* Counter::new(val); the build fixes the mutex and the overflow checks.
\* No Lazy is involved: the counter exists from the start.
LazyUnused ==
    /\ lazy_state = "init"
    /\ lpc = [t \in Threads |-> "none"]
    /\ lazy_inits = 0

GenericInit ==
    /\ LazyUnused
    /\ parking_lot \in BOOLEAN
    /\ overflow_checks \in BOOLEAN
    /\ generic_start \in {0, MaxVal}
    /\ mutex_value = generic_start
    /\ mutex_owner = 0
    /\ poisoned = FALSE
    /\ gpc = [t \in Threads |-> "idle"]
    /\ gop = [t \in Threads |-> "none"]
    /\ gprev = [t \in Threads |-> 0]
    /\ gtmp = [t \in Threads |-> 0]
    /\ guard = [t \in Threads |-> "none"]
    /\ generic_calls = 0
    /\ generic_incs = 0
    /\ generic_stored = FALSE
    /\ overlap = [t \in Threads |-> {}]
    /\ generic_last = <<"new", generic_start>>
    /\ inc_returned = {}
    /\ generic_base = generic_start
    /\ generic_since = 0

\* The call of thread t returns: its locals go out of scope.
Return(t) ==
    /\ gpc' = [gpc EXCEPT ![t] = "idle"]
    /\ gop' = [gop EXCEPT ![t] = "none"]
    /\ gprev' = [gprev EXCEPT ![t] = 0]
    /\ gtmp' = [gtmp EXCEPT ![t] = 0]

\* The call of thread t panics: the thread unwinds and runs no further.
Panic(t) ==
    /\ gpc' = [gpc EXCEPT ![t] = "panicked"]
    /\ gop' = [gop EXCEPT ![t] = "none"]
    /\ gprev' = [gprev EXCEPT ![t] = 0]
    /\ gtmp' = [gtmp EXCEPT ![t] = 0]

\* A thread calls a method and enters self.lock(); it may be keeping a borrow.
Call(t, m) ==
    /\ gpc[t] = "idle"
    /\ m \in {"inc", "inc_cloning"} => generic_calls < MaxIncs
    /\ gpc' = [gpc EXCEPT ![t] = "lock"]
    /\ gop' = [gop EXCEPT ![t] = m]
    /\ generic_calls' = IF m \in {"inc", "inc_cloning"}
                        THEN generic_calls + 1 ELSE generic_calls
    /\ overlap' = IF m = "inc_cloning" THEN [overlap EXCEPT ![t] = {}] ELSE overlap
    /\ UNCHANGED <<parking_lot, mutex_value, mutex_owner, poisoned, gprev, gtmp,
                   guard, generic_start, generic_incs, generic_stored>>
    /\ UNCHANGED generic_last
    /\ UNCHANGED inc_returned
    /\ UNCHANGED <<generic_base, generic_since>>
    /\ UNCHANGED <<overflow_checks, notGeneric>>

\* Where a method goes once self.lock() has returned the guard.
AfterLock(m) ==
    CASE m = "inc" -> "load"
      [] m = "inc_cloning" -> "clone"
      [] m \in {"set", "reset"} -> "write"
      [] m = "get_cloned" -> "read"
      [] OTHER -> "idle"

\* The borrow get_borrowed / get_mut_borrowed hand to the caller.
GuardOf(m) ==
    CASE m = "get_borrowed" -> "ref"
      [] m = "get_mut_borrowed" -> "mut"
      [] OTHER -> "none"

\* A faulty lock(): the poison flag is ignored.
AcquireIgnoringPoison(t) ==
    /\ mutex_owner' = t
    /\ IF GuardOf(gop[t]) # "none"
       THEN /\ guard' = [guard EXCEPT ![t] = GuardOf(gop[t])]
            /\ Return(t)
       ELSE /\ gpc' = [gpc EXCEPT ![t] = AfterLock(gop[t])]
            /\ UNCHANGED <<guard, gop, gprev, gtmp>>
    /\ UNCHANGED <<parking_lot, mutex_value, poisoned, generic_start,
                   generic_calls, generic_incs, generic_stored, overlap>>
    /\ UNCHANGED generic_last
    /\ UNCHANGED inc_returned
    /\ UNCHANGED <<generic_base, generic_since>>
    /\ UNCHANGED <<overflow_checks, notGeneric>>

\* What self.lock() does once the mutex lets the thread in (with std, a
\* poisoned mutex does not: see LockPoisoned).
Acquire(t) ==
    /\ parking_lot \/ ~poisoned
    /\ mutex_owner' = t
    /\ IF GuardOf(gop[t]) # "none"
       THEN /\ guard' = [guard EXCEPT ![t] = GuardOf(gop[t])]
            /\ Return(t)
       ELSE /\ gpc' = [gpc EXCEPT ![t] = AfterLock(gop[t])]
            /\ UNCHANGED <<guard, gop, gprev, gtmp>>
    /\ UNCHANGED <<parking_lot, mutex_value, poisoned, generic_start,
                   generic_calls, generic_incs, generic_stored, overlap>>
    /\ UNCHANGED generic_last
    /\ UNCHANGED inc_returned
    /\ UNCHANGED <<generic_base, generic_since>>
    /\ UNCHANGED <<overflow_checks, notGeneric>>

\* A faulty lock(): it lets the thread in whoever holds the mutex.
LockNoExclusion(t) ==
    /\ gpc[t] = "lock"
    /\ Acquire(t)

\* A faulty lock(): a re-entrant mutex, which lets its owner in again.
LockReentrant(t) ==
    /\ gpc[t] = "lock"
    /\ mutex_owner \in {0, t}
    /\ Acquire(t)

\* self.lock(): the mutex is free (and, with std, not poisoned); the thread
\* takes it.  get_borrowed and get_mut_borrowed return the guard to the caller.
Lock(t) ==
    /\ gpc[t] = "lock"
    /\ mutex_owner = 0
    /\ Acquire(t)

\* self.lock() with std on a poisoned mutex: lock() returns Err, expect(...)
\* panics and the guard inside the error is dropped.
LockPoisoned(t) ==
    /\ gpc[t] = "lock"
    /\ mutex_owner = 0
    /\ ~parking_lot /\ poisoned
    /\ Panic(t)
    /\ UNCHANGED <<parking_lot, mutex_value, mutex_owner, poisoned, guard,
                   generic_start, generic_calls, generic_incs, generic_stored,
                   overlap>>
    /\ UNCHANGED generic_last
    /\ UNCHANGED inc_returned
    /\ UNCHANGED <<generic_base, generic_since>>
    /\ UNCHANGED <<overflow_checks, notGeneric>>

\* self.lock() with std by the thread that holds the mutex: std leaves it open
\* whether lock() blocks for ever or panics.  The panic unwinds the thread,
\* which drops the guard it holds: the mutex is released, poisoned.
LockSelfPanic(t) ==
    /\ gpc[t] = "lock"
    /\ mutex_owner = t
    /\ ~parking_lot
    /\ Panic(t)
    /\ guard' = [guard EXCEPT ![t] = "none"]
    /\ mutex_owner' = 0
    /\ poisoned' = TRUE
    /\ UNCHANGED <<parking_lot, mutex_value, generic_start, generic_calls,
                   generic_incs, generic_stored, overlap>>
    /\ UNCHANGED generic_last
    /\ UNCHANGED inc_returned
    /\ UNCHANGED <<generic_base, generic_since>>
    /\ UNCHANGED <<overflow_checks, notGeneric>>

\* A faulty inc_cloning: prev is what the value will be after the increment.
CloneIncremented(t) ==
    /\ gpc[t] = "clone"
    /\ gprev' = [gprev EXCEPT ![t] = WrapAdd(mutex_value, 1)]
    /\ gpc' = [gpc EXCEPT ![t] = "load"]
    /\ UNCHANGED <<parking_lot, mutex_value, mutex_owner, poisoned, gop, gtmp,
                   guard, generic_start, generic_calls, generic_incs,
                   generic_stored, overlap>>
    /\ UNCHANGED generic_last
    /\ UNCHANGED inc_returned
    /\ UNCHANGED <<generic_base, generic_since>>
    /\ UNCHANGED <<overflow_checks, notGeneric>>

\* inc_cloning: `let prev = locked.clone();`
Clone(t) ==
    /\ gpc[t] = "clone"
    /\ gprev' = [gprev EXCEPT ![t] = mutex_value]
    /\ gpc' = [gpc EXCEPT ![t] = "load"]
    /\ UNCHANGED <<parking_lot, mutex_value, mutex_owner, poisoned, gop, gtmp,
                   guard, generic_start, generic_calls, generic_incs,
                   generic_stored, overlap>>
    /\ UNCHANGED generic_last
    /\ UNCHANGED inc_returned
    /\ UNCHANGED <<generic_base, generic_since>>
    /\ UNCHANGED <<overflow_checks, notGeneric>>

\* inc / inc_cloning, Inc::inc: `*self += 1` reads the value ...
IncLoad(t) ==
    /\ gpc[t] = "load"
    /\ gtmp' = [gtmp EXCEPT ![t] = mutex_value]
    /\ gpc' = [gpc EXCEPT ![t] = "store"]
    /\ UNCHANGED <<parking_lot, mutex_value, mutex_owner, poisoned, gop, gprev,
                   guard, generic_start, generic_calls, generic_incs,
                   generic_stored, overlap>>
    /\ UNCHANGED generic_last
    /\ UNCHANGED inc_returned
    /\ UNCHANGED <<generic_base, generic_since>>
    /\ UNCHANGED <<overflow_checks, notGeneric>>

\* ... and writes the sum back (wrapping in a build without overflow checks);
\* the guard is dropped and the call returns, inc_cloning with prev.
IncStore(t) ==
    /\ gpc[t] = "store"
    /\ gtmp[t] < MaxVal \/ ~overflow_checks
    /\ mutex_value' = IntInc(gtmp[t]) % Modulus
    /\ mutex_owner' = 0
    /\ Return(t)
    /\ generic_incs' = generic_incs + 1
    /\ IF gop[t] = "inc_cloning"
       THEN overlap' = [u \in Threads |->
                          IF u # t /\ gop[u] = "inc_cloning"
                          THEN overlap[u] \cup {gprev[t]} ELSE {}]
       ELSE overlap' = [overlap EXCEPT ![t] = {}]
    /\ generic_last' = IF gop[t] = "inc_cloning"
                       THEN <<"inc_cloning", gprev[t]>> ELSE <<"inc", 0>>
    /\ UNCHANGED <<parking_lot, poisoned, guard,
                   generic_start, generic_calls, generic_stored>>
    /\ inc_returned' = inc_returned \cup {t}
    /\ generic_since' = generic_since + 1
    /\ UNCHANGED generic_base
    /\ UNCHANGED <<overflow_checks, notGeneric>>

\* `*self += 1` overflows in a build with overflow checks: the thread panics
\* holding the guard, which unwinding drops; std poisons the mutex.
IncOverflowPanic(t) ==
    /\ gpc[t] = "store"
    /\ gtmp[t] = MaxVal /\ overflow_checks
    /\ mutex_owner' = 0
    /\ poisoned' = ~parking_lot
    /\ Panic(t)
    /\ UNCHANGED <<parking_lot, mutex_value, guard, generic_start,
                   generic_calls, generic_incs, generic_stored, overlap>>
    /\ UNCHANGED generic_last
    /\ UNCHANGED inc_returned
    /\ UNCHANGED <<generic_base, generic_since>>
    /\ UNCHANGED <<overflow_checks, notGeneric>>

\* A faulty set: it stores the default whatever val is.
WriteDefault(t, val) ==
    /\ gpc[t] = "write"
    /\ gop[t] = "reset" => val = 0
    /\ mutex_value' = 0
    /\ mutex_owner' = 0
    /\ Return(t)
    /\ generic_stored' = TRUE
    /\ generic_last' = <<gop[t], val>>
    /\ UNCHANGED <<parking_lot, poisoned, guard,
                   generic_start, generic_calls, generic_incs, overlap>>
    /\ UNCHANGED inc_returned
    /\ generic_base' = val
    /\ generic_since' = 0
    /\ UNCHANGED <<overflow_checks, notGeneric>>

\* set: `*self.lock() = val`; reset: self.set(T::default()), 0 for an integer.
\* (val is the caller's argument, drawn here, where it is first used.)
Write(t, val) ==
    /\ gpc[t] = "write"
    /\ gop[t] = "reset" => val = 0
    /\ mutex_value' = val
    /\ mutex_owner' = 0
    /\ Return(t)
    /\ generic_stored' = TRUE
    /\ generic_last' = <<gop[t], val>>
    /\ UNCHANGED <<parking_lot, poisoned, guard,
                   generic_start, generic_calls, generic_incs, overlap>>
    /\ UNCHANGED inc_returned
    /\ generic_base' = val
    /\ generic_since' = 0
    /\ UNCHANGED <<overflow_checks, notGeneric>>

\* What get_cloned returns: self.lock().clone()
Cloned == mutex_value

\* get_cloned: the clone is taken, the guard dropped, the call returns.
Read(t) ==
    /\ gpc[t] = "read"
    /\ mutex_owner' = 0
    /\ Return(t)
    /\ UNCHANGED <<parking_lot, mutex_value, poisoned, guard,
                   generic_start, generic_calls, generic_incs, generic_stored,
                   overlap>>
    /\ UNCHANGED generic_last
    /\ UNCHANGED inc_returned
    /\ UNCHANGED <<generic_base, generic_since>>
    /\ UNCHANGED <<overflow_checks, notGeneric>>

\* The caller writes through the mutable borrow it keeps (DerefMut).
GuardWrite(t, val) ==
    /\ gpc[t] = "idle"
    /\ guard[t] = "mut"
    /\ mutex_value' = val
    /\ generic_stored' = TRUE
    /\ generic_last' = <<"write", 0>>
    /\ UNCHANGED <<parking_lot, mutex_owner, poisoned, gpc, gop, gprev, gtmp,
                   guard, generic_start, generic_calls, generic_incs, overlap>>
    /\ UNCHANGED inc_returned
    /\ generic_base' = val
    /\ generic_since' = 0
    /\ UNCHANGED <<overflow_checks, notGeneric>>

\* The caller's borrow goes out of scope: the guard is dropped.
GuardDrop(t) ==
    /\ gpc[t] = "idle"
    /\ guard[t] # "none"
    /\ guard' = [guard EXCEPT ![t] = "none"]
    /\ mutex_owner' = 0
    /\ UNCHANGED <<parking_lot, mutex_value, poisoned, gpc, gop, gprev, gtmp,
                   generic_start, generic_calls, generic_incs, generic_stored,
                   overlap>>
    /\ UNCHANGED generic_last
    /\ UNCHANGED inc_returned
    /\ UNCHANGED <<generic_base, generic_since>>
    /\ UNCHANGED <<overflow_checks, notGeneric>>

GenericNext ==
    \/ \E t \in Threads, m \in Methods : Call(t, m)
    \/ \E t \in Threads : Lock(t)
    \/ \E t \in Threads : LockPoisoned(t)
    \/ \E t \in Threads : LockSelfPanic(t)
    \/ \E t \in Threads : Clone(t)
    \/ \E t \in Threads : IncLoad(t)
    \/ \E t \in Threads : IncStore(t)
    \/ \E t \in Threads : IncOverflowPanic(t)
    \/ \E t \in Threads, val \in Values : Write(t, val)
    \/ \E t \in Threads : Read(t)
    \/ \E t \in Threads, val \in Values : GuardWrite(t, val)
    \/ \E t \in Threads : GuardDrop(t)

\* ------------------------------------- generic.rs: global_counter! model ---
\* `static NAME: Lazy<Counter<T>> = Lazy::new(|| Counter::new($value));`
\* Every use of NAME dereferences the Lazy, which runs the closure on the
\* first access and blocks the threads that arrive while it runs.

\* The static as declared: the closure has not run, no counter exists yet
\* (mutex_value is a placeholder until it does).
GlobalInit ==
    /\ lazy_state = "uninit"
    /\ lpc = [t \in Threads |-> "none"]
    /\ lazy_inits = 0
    /\ parking_lot \in BOOLEAN
    /\ overflow_checks \in BOOLEAN
    /\ generic_start \in {0, MaxVal}
    /\ mutex_value = 0
    /\ mutex_owner = 0
    /\ poisoned = FALSE
    /\ gpc = [t \in Threads |-> "idle"]
    /\ gop = [t \in Threads |-> "none"]
    /\ gprev = [t \in Threads |-> 0]
    /\ gtmp = [t \in Threads |-> 0]
    /\ guard = [t \in Threads |-> "none"]
    /\ generic_calls = 0
    /\ generic_incs = 0
    /\ generic_stored = FALSE
    /\ overlap = [t \in Threads |-> {}]
    /\ generic_last = <<"new", generic_start>>
    /\ inc_returned = {}
    /\ generic_base = generic_start
    /\ generic_since = 0

\* What the steps of the Lazy leave alone.
LazyFrame ==
    /\ UNCHANGED <<parking_lot, gpc, gop, gprev, gtmp, guard, generic_start,
                   generic_calls, generic_incs, generic_stored, overlap,
                   generic_last, inc_returned, generic_base, generic_since>>
    /\ UNCHANGED <<fastVars, exactVars>>

\* Thread t uses the static and finds the cell not initialised yet.
LazyForce(t) ==
    /\ gpc[t] = "idle"
    /\ lpc[t] = "none"
    /\ lazy_state # "init"
    /\ lpc' = [lpc EXCEPT ![t] = IF lazy_state = "uninit" THEN "cas" ELSE "wait"]
    /\ UNCHANGED <<lazy_state, lazy_inits, mutex_value, mutex_owner, poisoned>>
    /\ LazyFrame

\* A faulty Lazy: every thread that found the cell uninitialised runs the
\* closure.
LazyCasRacy(t) ==
    /\ lpc[t] = "cas"
    /\ lazy_state' = "running"
    /\ lpc' = [lpc EXCEPT ![t] = "init"]
    /\ UNCHANGED <<lazy_inits, mutex_value, mutex_owner, poisoned>>
    /\ LazyFrame

\* The compare-and-swap of the cell's state: one thread wins and will run the
\* closure, the others wait.
LazyCas(t) ==
    /\ lpc[t] = "cas"
    /\ IF lazy_state = "uninit"
       THEN /\ lazy_state' = "running"
            /\ lpc' = [lpc EXCEPT ![t] = "init"]
       ELSE /\ lpc' = [lpc EXCEPT ![t] = "wait"]
            /\ UNCHANGED lazy_state
    /\ UNCHANGED <<lazy_inits, mutex_value, mutex_owner, poisoned>>
    /\ LazyFrame

\* The winner runs `Counter::new($value)` and publishes the counter.
LazyInit(t) ==
    /\ lpc[t] = "init"
    /\ mutex_value' = generic_start
    /\ mutex_owner' = 0
    /\ poisoned' = FALSE
    /\ lazy_inits' = lazy_inits + 1
    /\ lazy_state' = "init"
    /\ lpc' = [lpc EXCEPT ![t] = "none"]
    /\ LazyFrame

\* A thread that waited sees the cell initialised.
LazyWake(t) ==
    /\ lpc[t] = "wait"
    /\ lazy_state = "init"
    /\ lpc' = [lpc EXCEPT ![t] = "none"]
    /\ UNCHANGED <<lazy_state, lazy_inits, mutex_value, mutex_owner, poisoned>>
    /\ LazyFrame

\* NAME.inc() / NAME.get_cloned(): the cell is initialised, the dereference
\* yields the counter and the method is entered.
GlobalCall(t, m) ==
    /\ lpc[t] = "none"
    /\ lazy_state = "init"
    /\ Call(t, m)

GlobalNext ==
    \/ \E t \in Threads : LazyForce(t)
    \/ \E t \in Threads : LazyCas(t)
    \/ \E t \in Threads : LazyInit(t)
    \/ \E t \in Threads : LazyWake(t)
    \/ \E t \in Threads, m \in {"inc", "get_cloned"} : GlobalCall(t, m)
    \/ \E t \in Threads : Lock(t)
    \/ \E t \in Threads : LockPoisoned(t)
    \/ \E t \in Threads : IncLoad(t)
    \/ \E t \in Threads : IncStore(t)
    \/ \E t \in Threads : IncOverflowPanic(t)
    \/ \E t \in Threads : Read(t)

\* The threads of get_borrowed's "Good Example - At most one concurrent access
\* per thread": each calls inc once and then, any number of times, takes a
\* borrow with get_borrowed, reads the value through it and drops it.
ParallelNext ==
    \/ \E t \in Threads :
           t \notin inc_returned /\ guard[t] = "none" /\ Call(t, "inc")
    \/ \E t \in Threads :
           t \in inc_returned /\ guard[t] = "none" /\ Call(t, "get_borrowed")
    \/ \E t \in Threads : Lock(t)
    \/ \E t \in Threads : LockPoisoned(t)
    \/ \E t \in Threads : IncLoad(t)
    \/ \E t \in Threads : IncStore(t)
    \/ \E t \in Threads : IncOverflowPanic(t)
    \/ \E t \in Threads : GuardDrop(t)

\* The methods that return no borrow to the caller.
ClonedMethods == {"inc", "set", "get_cloned", "inc_cloning", "reset"}

\* Callers that never keep a borrow: only the methods of ClonedMethods.
ClonedNext ==
    \/ \E t \in Threads, m \in ClonedMethods : Call(t, m)
    \/ \E t \in Threads : Lock(t)
    \/ \E t \in Threads : LockPoisoned(t)
    \/ \E t \in Threads : Clone(t)
    \/ \E t \in Threads : IncLoad(t)
    \/ \E t \in Threads : IncStore(t)
    \/ \E t \in Threads : IncOverflowPanic(t)
    \/ \E t \in Threads, val \in Values : Write(t, val)
    \/ \E t \in Threads : Read(t)

\* Callers that never call a method while they keep a borrow.
NoReentryNext ==
    \/ \E t \in Threads, m \in Methods : guard[t] = "none" /\ Call(t, m)
    \/ \E t \in Threads : Lock(t)
    \/ \E t \in Threads : LockPoisoned(t)
    \/ \E t \in Threads : Clone(t)
    \/ \E t \in Threads : IncLoad(t)
    \/ \E t \in Threads : IncStore(t)
    \/ \E t \in Threads : IncOverflowPanic(t)
    \/ \E t \in Threads, val \in Values : Write(t, val)
    \/ \E t \in Threads : Read(t)
    \/ \E t \in Threads, val \in Values : GuardWrite(t, val)
    \/ \E t \in Threads : GuardDrop(t)

\* What thread t does next inside a call once it holds the mutex, or once
\* lock() has failed.
Proceed(t) ==
    \/ LockPoisoned(t)
    \/ Clone(t)
    \/ IncLoad(t)
    \/ IncStore(t)
    \/ IncOverflowPanic(t)
    \/ \E val \in Values : Write(t, val)
    \/ Read(t)

\* Fair scheduling: a thread that can run does run, and a thread waiting for
\* the mutex gets it if the mutex is free again and again.
FairScheduling ==
    \A t \in Threads : WF_vars(Proceed(t)) /\ SF_vars(Lock(t))

\* Every borrow a caller keeps is dropped in the end.
GuardsDropped == \A t \in Threads : WF_vars(GuardDrop(t))

\* ------------------------------------------------------- specifications ---

\* The counters a specification is not about stay as constructed.
FastIdle ==
    /\ start = [i \in Insts |-> 0]
    /\ threshold = [i \in Insts |-> 0]
    /\ global_counter = start
    /\ TL_COUNTER = [k \in Keys |-> [t \in Threads |-> NoCell]]
    /\ status = [t \in Threads |-> "running"]
    /\ inc_calls = [i \in Insts |-> 0]
    /\ inc_done = [i \in Insts |-> 0]
    /\ contributors = [i \in Insts |-> {}]
    /\ unflushed = [i \in Insts |-> {}]
    /\ lost = [i \in Insts |-> 0]
    /\ flushed = [i \in Insts |-> {}]
    /\ settled = [i \in Insts |-> {}]

FastUnusedByGeneric ==
    /\ kind = "flushing"
    /\ FastIdle

FastUnused ==
    /\ overflow_checks = FALSE
    /\ FastUnusedByGeneric

ExactUnused ==
    /\ exact_start = 0
    /\ atomic = 0
    /\ ordering = "SeqCst"
    /\ exact_ret = [t \in Threads |-> NoRet]
    /\ exact_incs = 0
    /\ exact_stored = FALSE
    /\ exact_last = <<"new", 0>>
    /\ exact_base = 0
    /\ exact_since = 0
    /\ exact_returned = {}
    /\ exact_ctor = "new"
    /\ exact_used = <<"none", "none">>
    /\ exact_panicked = {}

GenericUnused ==
    /\ LazyUnused
    /\ parking_lot = FALSE
    /\ generic_start = 0
    /\ mutex_value = 0
    /\ mutex_owner = 0
    /\ poisoned = FALSE
    /\ gpc = [t \in Threads |-> "idle"]
    /\ gop = [t \in Threads |-> "none"]
    /\ gprev = [t \in Threads |-> 0]
    /\ gtmp = [t \in Threads |-> 0]
    /\ guard = [t \in Threads |-> "none"]
    /\ generic_calls = 0
    /\ generic_incs = 0
    /\ generic_stored = FALSE
    /\ overlap = [t \in Threads |-> {}]
    /\ generic_last = <<"new", 0>>
    /\ inc_returned = {}
    /\ generic_base = generic_start
    /\ generic_since = 0

\* The fast counters, threads living as long as the counters.
Init == FastInit /\ ExactUnused /\ GenericUnused
Next == FastNext
Spec == Init /\ [][Next]_vars

\* The fast counters, with threads that end.
SpecLife == Init /\ [][LifeNext]_vars

\* The exact atomic counter.
InitExact == ExactInit /\ FastUnused /\ GenericUnused
NextExact == ExactNext
SpecExact == InitExact /\ [][NextExact]_vars

\* The exact atomic counter made with any ordering.
InitExactAny == ExactInitAny /\ FastUnused /\ GenericUnused
NextExactAny == ExactAnyNext
SpecExactAny == InitExactAny /\ [][NextExactAny]_vars

\* The generic counter.
InitGeneric == GenericInit /\ FastUnusedByGeneric /\ ExactUnused
NextGeneric == GenericNext
SpecGeneric == InitGeneric /\ [][NextGeneric]_vars

\* A program that uses one of the counters: a fast counter type, an exact
\* atomic counter or a generic counter.
InitAll ==
    \/ FastInit /\ ExactUnused /\ GenericUnused
    \/ kind = "exact" /\ overflow_checks = FALSE /\ FastIdle /\ ExactInit
                      /\ GenericUnused
    \/ kind = "generic" /\ FastIdle /\ ExactUnused /\ GenericInit

NextAll ==
    \/ \E t \in Threads, i \in Insts : FlushingInc(t, i)
    \/ \E t \in Threads, i \in Insts : ApproxInc(t, i)
    \/ \E t \in Threads, i \in Insts :
           kind \in {"flushing", "approx"} /\ Flush(t, i)
    \/ \E t \in Threads : kind = "exact" /\ ExactInc(t)
    \/ \E t \in Threads : kind = "exact" /\ ExactGet(t)
    \/ \E t \in Threads, val \in Values : kind = "exact" /\ ExactSet(t, val)
    \/ \E t \in Threads : kind = "exact" /\ ExactReset(t)
    \/ \E t \in Threads, m \in Methods : kind = "generic" /\ Call(t, m)
    \/ \E t \in Threads : kind = "generic" /\ Lock(t)
    \/ \E t \in Threads : kind = "generic" /\ LockPoisoned(t)
    \/ \E t \in Threads : kind = "generic" /\ LockSelfPanic(t)
    \/ \E t \in Threads : kind = "generic" /\ Clone(t)
    \/ \E t \in Threads : kind = "generic" /\ IncLoad(t)
    \/ \E t \in Threads : kind = "generic" /\ IncStore(t)
    \/ \E t \in Threads : kind = "generic" /\ IncOverflowPanic(t)
    \/ \E t \in Threads, val \in Values : kind = "generic" /\ Write(t, val)
    \/ \E t \in Threads : kind = "generic" /\ Read(t)
    \/ \E t \in Threads, val \in Values : kind = "generic" /\ GuardWrite(t, val)
    \/ \E t \in Threads : kind = "generic" /\ GuardDrop(t)

SpecAll == InitAll /\ [][NextAll]_vars

\* A generic counter declared with global_counter!.
InitGlobal == GlobalInit /\ FastUnusedByGeneric /\ ExactUnused
NextGlobal == GlobalNext
SpecGlobal == InitGlobal /\ [][NextGlobal]_vars

\* The generic counter with threads that make one inc each and then read it
\* through borrows.
NextParallel == ParallelNext
SpecParallel == InitGeneric /\ [][NextParallel]_vars

\* The generic counter with callers that never keep a borrow.
NextCloned == ClonedNext
SpecCloned == InitGeneric /\ [][NextCloned]_vars
SpecClonedFair == SpecCloned /\ FairScheduling

\* The generic counter with callers that never re-enter it.
NextNoReentry == NoReentryNext
SpecNoReentry == InitGeneric /\ [][NextNoReentry]_vars
SpecNoReentryFair == SpecNoReentry /\ FairScheduling /\ GuardsDropped

\* ------------------------------------------------- claims: fast counters --

\* |a - b| in the counter's integer type, where values wrap at 2^Bits.
ModDist(a, b) ==
    LET d == (a - b) % Modulus
    IN  IF d <= Modulus - d THEN d ELSE Modulus - d

\* C1: for a FlushingCounter or ApproxCounter, once every thread that has
\* called inc on it has completed a flush on it after its last inc (no inc
\* being in progress), get() returns start + N, N the number of completed inc
\* calls on it (the sum taken in the counter's wrapping integer type).
C1_FlushedIsExact ==
    \A i \in Insts :
        unflushed[i] = {} => Get(i) = WrapAdd(start[i], inc_done[i])

\* C2: for an ApproxCounter with threshold R >= 1, in every state
\* |get() - (start + N)| <= T * (R - 1), N the inc calls made on it so far and
\* T the number of distinct threads that have called inc on it (the difference
\* taken in the counter's wrapping integer type).
C2_ApproxErrorBound ==
    \A i \in Insts :
        (kind = "approx" /\ threshold[i] >= 1) =>
            ModDist(Get(i), WrapAdd(start[i], inc_calls[i]))
                <= Cardinality(contributors[i]) * (threshold[i] - 1)

\* C3: every instance has its own per-thread local cell: a flush on an
\* instance by a thread that never called inc on that instance (whatever the
\* thread did on another instance of the same type) leaves that instance's
\* get() unchanged.
C3_FirstFlushLeavesGet ==
    [][\A t \in Threads, i \in Insts :
          (t \notin contributors[i] /\ Flush(t, i)) => Get(i)' = Get(i)]_vars

\* C7: for a FlushingCounter, in every state get() - start is at most the
\* number of inc calls made on that counter so far.
C7_FlushingNeverOverCounts ==
    \A i \in Insts :
        kind = "flushing" => Get(i) - start[i] <= inc_calls[i]

\* C8: for an ApproxCounter, in every state get() is at least start and at
\* most start + N, N the inc calls made on it so far: get() lies among start,
\* start + 1, ..., start + N of the counter's wrapping integer type.
C8_ApproxGetWithinStartAndN ==
    \A i \in Insts :
        kind = "approx" => (Get(i) - start[i]) % Modulus <= inc_calls[i]

\* ------------------------------------------- claims: exact atomic counter --

\* C4: for an exact atomic counter on which set and reset were never called,
\* after N completed inc calls, made by any threads in any order, get()
\* returns start + N (in the counter's wrapping integer type): no increment is
\* lost.
C4_ExactNoLostIncrement ==
    ~exact_stored => atomic = WrapAdd(exact_start, exact_incs)

\* C4's case: two threads have both completed an inc, set/reset never called.
C4_Witness ==
    /\ ~exact_stored
    /\ exact_incs >= 2
    /\ \A t \in Threads : exact_ret[t] # NoRet

\* ------------------------------------------------ claims: generic counter --

\* The threads that hold a live guard: the guard of a self.lock() inside a
\* method, or the borrow get_borrowed / get_mut_borrowed returned.
Holders ==
    {t \in Threads : gpc[t] \in {"clone", "load", "store", "write", "read"}
                     \/ guard[t] # "none"}

\* Thread t is inside inc_cloning, between its read of the previous value and
\* the end of its increment.
InCloning(t) == gop[t] = "inc_cloning" /\ gpc[t] \in {"load", "store"}

\* Thread t, keeping a borrow of the counter, is inside a call of a method of
\* that counter.
Reentered(t) == gpc[t] = "lock" /\ guard[t] # "none"

\* C5: for a generic counter over an integer whose value was never stored to
\* (no set, no reset, no write through a mutable borrow), get_cloned() is
\* start + N in every state, N the number of completed inc / inc_cloning calls
\* (in the integer's wrapping type): each inc is applied exactly once.
C5_GenericNoLostIncrement ==
    ~generic_stored => Cloned = WrapAdd(generic_start, generic_incs)

\* C5's case: every inc the bound allows has completed, by any threads in any
\* order, and nothing was stored.
C5_Witness ==
    /\ ~generic_stored
    /\ generic_incs = MaxIncs
    /\ \A t \in Threads : gpc[t] = "idle" /\ guard[t] = "none"

C9_OneLiveGuard ==
    /\ Cardinality(Holders) <= 1
    /\ \A t \in Holders : mutex_owner = t

\* C9's case: one thread keeps a borrow while another thread's call waits.
C9_Witness ==
    \E t, u \in Threads :
        /\ t # u
        /\ guard[t] # "none"
        /\ gpc[u] = "lock"
        /\ gop[u] \in {"inc", "set", "get_cloned"}

\* C10 as stated: a call made by a thread that keeps a borrow of the counter
\* stays blocked for ever (a deadlock), and the value does not change.
C10_ReentrantCallDeadlocks ==
    [][\A t \in Threads :
          Reentered(t) => (Reentered(t)' /\ mutex_value' = mutex_value)]_vars

\* C10, amended: a call made by a thread that keeps a borrow of the counter
\* never returns: it stays blocked, or (std mutex only) it panics; the value
\* does not change.
C10_ReentrantCallNeverReturns ==
    [][\A t \in Threads :
          Reentered(t) =>
              /\ Reentered(t)' \/ (~parking_lot /\ gpc'[t] = "panicked")
              /\ mutex_value' = mutex_value]_vars

\* C10's case: a thread that keeps a borrow has called a method, and another
\* thread waits behind it.
C10_Witness ==
    \E t, u \in Threads :
        /\ t # u
        /\ Reentered(t)
        /\ gpc[u] = "lock"

\* A call of thread t is in progress / has ended in a panic.
InCall(t) == gpc[t] \notin {"idle", "panicked"}
Panicked(t) == gpc[t] = "panicked"

\* C11: with callers that use only get_cloned, inc, inc_cloning, set and
\* reset, the mutex is free whenever no call is in progress, and every call
\* returns: none ends in a panic instead of returning.
C11_LockFreeAndCallsReturn ==
    /\ (\A t \in Threads : ~InCall(t)) => mutex_owner = 0
    /\ \A t \in Threads : ~Panicked(t)

\* Under fair scheduling every such call ends: it returns or it panics.
ClonedCallsEnd ==
    \A t \in Threads : InCall(t) ~> ~InCall(t)

\* C18: Inc::inc on a built-in integer is a wrapping addition of one: an inc
\* that finds the counter at the maximum of its type completes normally and
\* leaves the minimum (0 for the unsigned types modelled here).
C18_IncWrapsAtMax ==
    [][\A t \in Threads :
          (gpc[t] = "store" /\ gtmp[t] = MaxVal /\ gpc'[t] # "store")
              => (gpc'[t] = "idle" /\ mutex_value' = 0)]_vars

\* ------------------------------------------ claims: set, reset, returns ---

\* C12: reset sets the value to the default (0 for an integer), whatever the
\* start value and the history: while reset is the last operation that took
\* effect, get_cloned() of a generic counter and get() of an exact atomic
\* counter return 0, and one inc that follows leaves 1.
C12_ResetSetsDefault ==
    [][/\ generic_last'[1] = "reset" => Cloned' = 0
       /\ (generic_last[1] = "reset" /\ generic_last'[1] \in {"inc", "inc_cloning"})
              => Cloned' = 1
       /\ exact_last'[1] = "reset" => atomic' = 0
       /\ \A t \in Threads :
              (exact_last[1] = "reset" /\ ExactGet(t)) => exact_ret'[t] = 0
       /\ (exact_last[1] = "reset" /\ exact_last'[1] = "inc") => atomic' = 1]_vars

\* C12's case: a generic counter constructed with a non-zero start has counted
\* and has then been reset.
C12_Witness ==
    /\ generic_last[1] = "reset"
    /\ generic_start = MaxVal
    /\ generic_incs >= 1

\* C13: set(v) followed by get_cloned() (generic counter) or get() (exact atomic
\* counter), no other operation taking effect in between, returns v, for every
\* v and every prior state.
C13_SetThenGet ==
    [][/\ \A t \in Threads :
              (gpc'[t] = "read" /\ generic_last'[1] = "set")
                  => Cloned' = generic_last'[2]
       /\ \A t \in Threads :
              (exact_last[1] = "set" /\ ExactGet(t))
                  => exact_ret'[t] = exact_last[2]]_vars

\* C13's case: a get_cloned is cloning the value right after a set(MaxVal) on a
\* generic counter constructed with 0.
C13_Witness ==
    \E t \in Threads :
        /\ gpc[t] = "read"
        /\ generic_last = <<"set", MaxVal>>
        /\ generic_start = 0

\* C14: inc_cloning returns the value held before its increment, and while it
\* is the last operation that took effect get_cloned() returns that value
\* incremented once (in the integer's wrapping type).
C14_IncCloningReturnsPrevious ==
    [][/\ \A t \in Threads :
              (gop[t] = "inc_cloning" /\ gpc[t] = "store" /\ gpc'[t] = "idle")
                  => generic_last' = <<"inc_cloning", mutex_value>>
       /\ generic_last'[1] = "inc_cloning"
              => Cloned' = WrapAdd(generic_last'[2], 1)]_vars

\* C14's case: a get_cloned is cloning the value right after an inc_cloning
\* that returned a value other than the start.
C14_Witness ==
    \E t \in Threads :
        /\ gpc[t] = "read"
        /\ generic_last[1] = "inc_cloning"
        /\ generic_last[2] # generic_start

\* C15: inc of an exact atomic counter returns the value the counter held
\* immediately before that increment; with no set/reset, the N inc calls made
\* have returned exactly start, start + 1, ..., start + N - 1 (in the counter's
\* wrapping integer type), which are pairwise distinct for N <= 2^Bits.
C15_IncReturnsPrevious ==
    /\ exact_last[1] = "inc" => atomic = WrapAdd(exact_last[2], 1)
    /\ ~exact_stored =>
           /\ exact_returned =
                  {WrapAdd(exact_start, k) : k \in 0..(exact_incs - 1)}
           /\ exact_incs <= Modulus => Cardinality(exact_returned) = exact_incs

\* C15's case: both threads have made incs, as many as the bound allows, on a
\* counter that started at its maximum, with no set/reset.
C15_Witness ==
    /\ ~exact_stored
    /\ exact_incs = MaxIncs
    /\ exact_start = MaxVal
    /\ \A t \in Threads : exact_ret[t] # NoRet

\* ------------------------------------- claims: fast counters, continued ---

\* C16: what a thread's local cell for a counter holds when the thread ends
\* (L, summed in lost) is never added to the global total: once every live
\* thread that called inc has flushed after its last inc, get() is
\* start + N - L (in the counter's wrapping integer type), N the completed inc
\* calls; and the cells of a thread that has ended are gone, so that a new
\* thread starts with a local cell of zero.
C16_AbandonedIsLost ==
    /\ \A i \in Insts :
           unflushed[i] = {} =>
               Get(i) = (start[i] + inc_done[i] - lost[i]) % Modulus
    /\ \A t \in Threads, i \in Insts : ~Running(t) => With(t, i) = 0

\* C19: an ApproxCounter with threshold 0 or 1 folds on every inc: after each
\* completed inc the calling thread's local cell is 0, and get() is start + N
\* exactly (in the counter's wrapping integer type), N the completed inc calls
\* on it, as for an exact atomic counter.
C19_ThresholdOneIsExact ==
    [][\A i \in Insts :
          (kind = "approx" /\ threshold[i] <= 1) =>
              /\ \A t \in Threads : ApproxInc(t, i) => With(t, i)' = 0
              /\ Get(i)' = WrapAdd(start[i], inc_done'[i])]_vars

\* ------------------------------------------------- claims: completion ----

\* C17: every operation that is invoked completes; for the generic counter,
\* provided no thread re-enters the counter while it keeps a borrow and every
\* borrow is dropped in the end.  In particular no call ends in a panic
\* instead of completing.
C17_OperationsComplete ==
    \A t \in Threads : gpc[t] # "panicked"

\* Under fair scheduling, with borrows dropped in the end and no re-entry,
\* every call ends: it returns or it panics.
NoReentryCallsEnd ==
    \A t \in Threads : InCall(t) ~> ~InCall(t)

\* ----------------------------------------------- claims: monotonicity ----

\* C20, as stated: the value of a flushing or approximate counter never
\* decreases, and the value of an exact or generic counter decreases only as
\* the effect of a set or reset.
C20_Monotonic ==
    [][/\ kind \in {"flushing", "approx"} =>
              \A i \in Insts : Get(i)' >= Get(i)
       /\ kind = "exact" =>
              (atomic' < atomic => exact_last'[1] \in {"set", "reset"})
       /\ kind = "generic" =>
              (mutex_value' < mutex_value =>
                   generic_last'[1] \in {"set", "reset"})]_vars

\* C20, amended: the value of a flushing or approximate counter decreases
\* only when the addition of a thread's local count (plus the increment being
\* made) passes the maximum of the type and wraps; the value of an exact or
\* generic counter decreases only as the effect of a set, a reset, a write
\* through a mutable borrow, or an increment of the maximum that wraps to 0.
C20_MonotonicUpToWrap ==
    [][/\ kind \in {"flushing", "approx"} =>
              \A i \in Insts :
                  Get(i)' < Get(i) =>
                      \E t \in Threads :
                          \E c \in {n \in {With(t, i), With(t, i) + 1} : n >= 0} :
                              Get(i)' = Get(i) + c - Modulus
       /\ kind = "exact" =>
              (atomic' < atomic =>
                   \/ exact_last'[1] \in {"set", "reset"}
                   \/ /\ exact_last' = <<"inc", MaxVal>>
                      /\ atomic = MaxVal
                      /\ atomic' = 0)
       /\ kind = "generic" =>
              (mutex_value' < mutex_value =>
                   \/ generic_last'[1] \in {"set", "reset", "write"}
                   \/ /\ generic_last'[1] \in {"inc", "inc_cloning"}
                      /\ mutex_value = MaxVal
                      /\ mutex_value' = 0)]_vars

\* A flushing or approximate counter whose value has passed the maximum and
\* is now below the value it started from.
C20_Witness ==
    /\ kind \in {"flushing", "approx"}
    /\ \E i \in Insts : inc_done[i] > 0 /\ Get(i) < start[i]

\* ------------------------------------- claims: fast counters, the cells ---

\* The sum of what the local cells of the threads in S hold for instance i.
RECURSIVE LocalSum(_, _)
LocalSum(i, S) ==
    IF S = {} THEN 0
    ELSE LET t == CHOOSE u \in S : TRUE
         IN  With(t, i) + LocalSum(i, S \ {t})

\* C21: for one FlushingCounter or ApproxCounter, in every state the global
\* total plus the local cells of all live threads plus what ended threads
\* abandoned equals start + the number of completed incs, in the counter's
\* wrapping integer type: no update is lost or counted twice.
C21_Conservation ==
    \A i \in Insts :
        (Get(i) + LocalSum(i, Threads) + lost[i]) % Modulus
            = (start[i] + inc_done[i]) % Modulus

\* C22: for an ApproxCounter with threshold R >= 1, at any instant (between
\* calls: whenever an inc or a flush has returned) each thread's local cell
\* for the counter holds less than R.
C22_LocalBelowThreshold ==
    \A i \in Insts :
        (kind = "approx" /\ threshold[i] >= 1) =>
            \A t \in Threads : With(t, i) < threshold[i]

\* C23: an ApproxCounter folds exactly when the local cell reaches the
\* threshold R >= 1: while one thread alone, started with a zero local cell,
\* has made n = k*R + j incs on the counter (0 <= j < R) and no flush has been
\* made, get() = start + k*R and the thread's local cell holds j.
C23_FoldsAtThreshold ==
    \A i \in Insts, t \in Threads :
        ( /\ kind = "approx"
          /\ threshold[i] >= 1
          /\ inc_done[i] >= 1
          /\ \A j \in Insts : contributors[j] \subseteq {t} /\ flushed[j] = {} )
        => /\ Get(i) = WrapAdd(start[i],
                               (inc_done[i] \div threshold[i]) * threshold[i])
           /\ With(t, i) = inc_done[i] % threshold[i]

\* ---------------------------------- claims: fast counters, frame effects --

\* C24: FlushingCounter.inc adds one to the calling thread's local cell and
\* changes nothing else: the global totals and every other thread's cells are
\* as before, so get() still returns the start value after any number of incs
\* as long as no flush has been made.
C24_IncOnlyLocal ==
    [][\A t \in Threads, i \in Insts :
          FlushingInc(t, i) =>
              /\ global_counter' = global_counter
              /\ With(t, i)' = WrapAdd(With(t, i), 1)
              /\ \A u \in Threads \ {t}, k \in Keys :
                     TL_COUNTER'[k][u] = TL_COUNTER[k][u]
              /\ (\A j \in Insts : flushed[j] = {}) => Get(i)' = start[i]]_vars

\* Two threads have made incs on a FlushingCounter, no flush has been made
\* and get() still returns the start value.
C24_Witness ==
    /\ kind = "flushing"
    /\ \A j \in Insts : flushed[j] = {}
    /\ \E i \in Insts :
           /\ contributors[i] = Threads
           /\ inc_done[i] >= 2
           /\ Get(i) = start[i]

\* C25: an ApproxCounter.inc that leaves the local cell below the threshold
\* leaves the global total unchanged (two get() calls with one inc in between
\* may return the same value); the global total changes only in an inc that
\* reaches the threshold or in a flush.
C25_GlobalChangesOnlyByFold ==
    [][kind = "approx" =>
          \A i \in Insts :
              /\ \A t \in Threads :
                     (ApproxInc(t, i) /\ WrapAdd(With(t, i), 1) < threshold[i])
                         => global_counter' = global_counter
              /\ Get(i)' # Get(i) =>
                     \E t \in Threads :
                         \/ Flush(t, i)
                         \/ /\ ApproxInc(t, i)
                            /\ WrapAdd(With(t, i), 1) >= threshold[i]]_vars

\* An inc has been made on an ApproxCounter, it is still in the thread's local
\* cell and get() returns what it returned before the inc.
C25_Witness ==
    /\ kind = "approx"
    /\ \E i \in Insts, t \in Threads :
           /\ inc_done[i] = 1
           /\ contributors[i] = {t}
           /\ With(t, i) = 1
           /\ Get(i) = start[i]

\* C26: flush adds exactly what the calling thread's local cell holds to the
\* global total of the counter and leaves the cell at zero, so that the
\* thread's next inc makes the cell hold one; no other counter's total and no
\* other thread's cell is changed.
C26_FlushFoldsLocal ==
    [][\A t \in Threads, i \in Insts :
          /\ Flush(t, i) =>
                 /\ Get(i)' = WrapAdd(Get(i), With(t, i))
                 /\ With(t, i)' = 0
                 /\ \A j \in Insts \ {i} : Get(j)' = Get(j)
                 /\ \A u \in Threads \ {t}, k \in Keys :
                        TL_COUNTER'[k][u] = TL_COUNTER[k][u]
          /\ ( /\ FlushingInc(t, i) \/ ApproxInc(t, i)
               /\ With(t, i) = 0
               /\ threshold[i] > 1 \/ kind = "flushing" )
                 => With(t, i)' = 1]_vars

\* A thread has flushed a nonzero local count: the global total has moved
\* away from the start value and the thread's cell holds zero.
C26_Witness ==
    \E i \in Insts, t \in Threads :
        /\ t \in flushed[i]
        /\ t \notin unflushed[i]
        /\ inc_done[i] >= 1
        /\ Get(i) # start[i]
        /\ With(t, i) = 0

C28_CellsArePerThread ==
    [][\A u \in Threads, k \in Keys :
          TL_COUNTER'[k][u] # TL_COUNTER[k][u] =>
              \/ \E i \in Insts : FlushingInc(u, i)
              \/ \E i \in Insts : ApproxInc(u, i)
              \/ \E i \in Insts : Flush(u, i)
              \/ \E i \in Insts : IncPanic(u, i)
              \/ ThreadExit(u)]_vars

\* One thread has flushed its cell while another still holds a count it has
\* not flushed.
C28_Witness ==
    \E i \in Insts, t \in Threads, u \in Threads :
        /\ t # u
        /\ t \in settled[i]
        /\ t \in contributors[i]
        /\ With(t, i) = 0
        /\ u \in unflushed[i]
        /\ With(u, i) > 0

\* ------------------------- claims: fast counters, the two types compared ---

\* What an inc that does not fold does to the counters' state: one more in
\* the calling thread's cell, nothing else.
IncWithoutFold(t, i) ==
    /\ global_counter' = global_counter
    /\ TL_COUNTER' = [TL_COUNTER EXCEPT
                          ![thread_local_counter(i)][t] = WrapAdd(With(t, i), 1)]

\* What a flush does to the counters' state.
FlushEffect(t, i) ==
    /\ global_counter' = [global_counter EXCEPT ![i] = WrapAdd(@, With(t, i))]
    /\ TL_COUNTER' = [TL_COUNTER EXCEPT ![thread_local_counter(i)][t] = 0]

C30_OrderingUsed ==
    [][/\ ordering' = ordering
       /\ exact_ctor = "new" => ordering = "SeqCst"
       /\ \A t \in Threads :
              /\ ExactInc(t) => exact_used' = <<"inc", ordering>>
              /\ ExactGet(t) =>
                     exact_used' = <<"get", IF ordering = "AcqRel"
                                            THEN "Acquire" ELSE ordering>>
              /\ ExactReset(t) =>
                     exact_used' = <<"reset", IF ordering = "AcqRel"
                                              THEN "Release" ELSE ordering>>
              /\ \A val \in Values :
                     ExactSet(t, val) =>
                         exact_used' = <<"set", IF ordering = "AcqRel"
                                                THEN "Release" ELSE ordering>>]_vars

\* A counter made with AcqRel whose get has just loaded with Acquire, after an
\* inc and a set.
C30_Witness ==
    /\ exact_ctor = "with_ordering"
    /\ ordering = "AcqRel"
    /\ exact_used = <<"get", "Acquire">>
    /\ exact_incs >= 1
    /\ exact_stored

\* C31: with_ordering validates nothing: it returns a counter for every
\* ordering, Acquire or Release alone included; the stored mode stays as given
\* and get, set and reset pass it as it is to load and store (AcqRel apart);
\* no operation returns an error value: a call returns a value of the integer
\* type, or nothing, or it panics inside the atomic.
C31_NoValidation ==
    [][/\ ordering' = ordering
       /\ \A t \in Threads :
              /\ ordering # "AcqRel" =>
                     /\ (ExactGet(t) \/ ExactLoadPanic(t))
                            => exact_used' = <<"get", ordering>>
                     /\ (ExactReset(t) \/ ExactStorePanic(t, "reset"))
                            => exact_used' = <<"reset", ordering>>
                     /\ (ExactStorePanic(t, "set")
                           \/ \E val \in Values : ExactSet(t, val))
                            => exact_used' = <<"set", ordering>>
              /\ exact_ret'[t] \in Values \cup {NoRet}]_vars

\* A counter made with Release alone: a set has stored with Release and a get
\* has passed Release to load.
C31_Witness ==
    /\ exact_ctor = "with_ordering"
    /\ ordering = "Release"
    /\ exact_stored
    /\ exact_used = <<"get", "Release">>
    /\ exact_panicked # {}

\* ------------------------------------------- claims: generic, poisoning ---

\* C32: with the std mutex, once a thread has panicked holding a guard (the
\* mutex is poisoned), no operation on the counter returns, reads the value or
\* changes it: a thread can only enter a call and panic in lock().
C32_PoisonedPanics ==
    [][(~parking_lot /\ poisoned) =>
          /\ poisoned'
          /\ mutex_value' = mutex_value
          /\ mutex_owner' = 0
          /\ guard' = guard
          /\ generic_last' = generic_last
          /\ \A t \in Threads :
                 gpc'[t] # gpc[t] =>
                     \/ gpc[t] = "idle" /\ gpc'[t] = "lock"
                     \/ gpc[t] = "lock" /\ gpc'[t] = "panicked"]_vars

\* The std mutex is poisoned and every thread has panicked: the first one
\* holding a guard, the others in lock().
C32_Witness ==
    /\ ~parking_lot
    /\ poisoned
    /\ \A t \in Threads : gpc[t] = "panicked"

\* --------------------------------- claims: fast counters, the cell's range ---

\* C33: FlushingCounter.inc completes normally whatever the calling thread's
\* local cell holds, the maximum of the integer type included: no inc ends in
\* a panic.
C33_IncCompletesAtMax ==
    \A t \in Threads : status[t] # "panicked"

\* C34: the local cell of an ApproxCounter never overflows, whatever the
\* threshold (0 and the maximum of the type included): between calls, hence
\* before every `*tlc += 1`, the cell holds at most the maximum minus one,
\* every inc leaving it below the threshold or at zero.
C34_ApproxCellBelowMax ==
    kind = "approx" =>
        \A t \in Threads, i \in Insts :
            /\ With(t, i) <= MaxVal - 1
            /\ With(t, i) = 0 \/ \E j \in Insts : With(t, i) < threshold[j]

\* An ApproxCounter whose threshold is the maximum of the type: one thread's
\* cell has reached it and has been folded.
C34_Witness ==
    /\ kind = "approx"
    /\ \E i \in Insts, t \in Threads :
           /\ threshold[i] = MaxVal
           /\ contributors[i] = {t}
           /\ inc_done[i] = MaxVal
           /\ With(t, i) = 0
           /\ Get(i) = WrapAdd(start[i], MaxVal)

\* ------------------------------------------- claims: the global static ---

C36_BorrowedBetween ==
    LET k == Cardinality(Threads)
    IN  /\ \A t \in Threads :
               (guard[t] = "ref" /\ t \in inc_returned) =>
                   \E j \in 1..k : mutex_value = WrapAdd(generic_start, j)
        /\ ( /\ inc_returned = Threads
             /\ \A t \in Threads : gpc[t] = "idle" /\ guard[t] = "none" )
               => mutex_value = WrapAdd(generic_start, k)

\* A thread reads start + 1 through its borrow while another thread, whose inc
\* has not been applied yet, waits for the mutex.
C36_Witness ==
    \E t \in Threads, u \in Threads :
        /\ guard[t] = "ref"
        /\ t \in inc_returned
        /\ u \notin inc_returned
        /\ gpc[u] = "lock"
        /\ gop[u] = "inc"
        /\ mutex_value = WrapAdd(generic_start, 1)

\* -------------------------------------- claims: set, reset against inc ---

\* C37: on the exact atomic counter and on the generic counter a set or reset
\* takes effect at one point among the incs that run concurrently with it:
\* the value is what the last set (or reset, or new) stored plus the number j
\* of incs that took effect after it, j being at most the number m of incs
\* made, and never anything else (sums in the integer's wrapping type).
C37_SetOrderedAmongIncs ==
    /\ kind = "exact" =>
           /\ atomic = WrapAdd(exact_base, exact_since)
           /\ exact_since <= exact_incs
    /\ kind = "generic" =>
           /\ mutex_value = WrapAdd(generic_base, generic_since)
           /\ generic_since <= generic_incs

\* On the generic counter a set has taken effect between two incs, while the
\* second inc was in progress or later; the value is the set's plus one.
C37_Witness ==
    /\ kind = "generic"
    /\ generic_stored
    /\ generic_last[1] = "inc"
    /\ generic_since = 1
    /\ generic_incs = 2
    /\ mutex_value = WrapAdd(generic_base, 1)
    /\ mutex_value # WrapAdd(generic_start, 2)

====
